---- MODULE Spec2Model ----
(***************************************************************************)
(* Model of the continuous-serving supervisor (package continuous):        *)
(* Cont.Serve and its signal loop, stop / gracefulStop, upgrade,           *)
(* closeListeners, serve and the accept-loop goroutines it starts, the     *)
(* pid file and the successor processes started by upgrade.                *)
(***************************************************************************)
EXTENDS Integers, Sequences, FiniteSets, TLC

(* ---------------------------------------------------------------------- *)
(* Bounds of the model                                                     *)
(* ---------------------------------------------------------------------- *)

\* number of registrations made with AddServer before Serve
NumServers == 2
\* number of SIGUSR1 the environment sends (each serve() opens an episode)
MaxToggles == 2
\* number of SIGUSR2 / SIGHUP the environment sends (each may start a child)
MaxUpgrades == 1

Regs == 1..NumServers
ChildIds == 1..MaxUpgrades

(* ---------------------------------------------------------------------- *)
(* Program constants                                                       *)
(* ---------------------------------------------------------------------- *)

\* ContState
Running == "Running"
Ready == "Ready"
Stopped == "Stopped"

\* capacity of the signal channel: make(chan os.Signal, 1)
SigChanCap == 1

\* the signals registered with signal.Notify
Signals == {"TERM", "USR2", "USR1", "HUP", "QUIT", "CHLD"}

\* pid-file contents: 0 is "no such file", ParentPid is cont.pid, a child c
\* has pid ChildPid(c)
NoFile == 0
ParentPid == 1
ChildPid(c) == ParentPid + c

VARIABLES
    state,      \* cont.state
    pc,         \* position of the controller goroutine inside Serve
    k,          \* index of the range loop in stop/gracefulStop/closeListeners
    cur,        \* sig, the signal pulled from the channel
    queue,      \* the buffered signal channel c
    ret,        \* what Serve returned: "none" (not returned), "nil", "err"
    doneChan,   \* cont.doneChan: 0 is nil, g is the channel made by the g-th serve()
    closed,     \* the done channels that have been closed
    lis,        \* server.lis of each registration: 0 is nil, g the listener bound in episode g
    open,       \* the listeners <<registration, episode>> that are open
    active,     \* the listeners cont.net keeps for its next StartProcess
    loops,      \* the accept-loop goroutines started by serve()
    wg,         \* counter of cont.wg
    serveErr,   \* result of the last serve(): 0 is nil, i the registration whose Listen failed
    pidfile,    \* contents of <pidfile>
    pidold,     \* contents of <pidfile>.old
    child,      \* cont.child: 0 until a successor is started
    nchild,     \* number of successors started so far
    alive,      \* successors that have not exited
    wrote,      \* successors that have written their pid at startup
    upg,        \* result of the last upgrade(): "none", "ok", "fail"
    asked,      \* per registration, the stop method invoked on its server: "none", "Stop", "GracefulStop"
    stopErr,    \* whether a Stop/GracefulStop returned an error
    toggles,    \* SIGUSR1 put into the channel so far
    upgrades,   \* SIGUSR2/SIGHUP put into the channel so far
    logged      \* whether the step just taken wrote "serve failed" to the log

vars == <<state, pc, k, cur, queue, ret, doneChan, closed, lis, open, active,
          loops, wg, serveErr, pidfile, pidold, child, nchild, alive,
          wrote, upg, asked, stopErr, toggles, upgrades, logged>>

ctlVars == <<state, pc, k, cur, ret, doneChan, closed, lis, active, serveErr,
             child, upg, asked, stopErr>>
sigVars == <<queue, toggles, upgrades>>
fileVars == <<pidfile, pidold>>
childVars == <<nchild, alive, wrote>>
loopVars == <<loops, wg, open>>

(* ---------------------------------------------------------------------- *)
(* Helpers modelling pieces of the code                                    *)
(* ---------------------------------------------------------------------- *)

\* the process died of a panic: nothing of it runs any more (and nothing that
\* happens afterwards is followed)
Crashed == pc = "panicked"

\* close(ch) panics on a nil channel and on a closed channel
ClosePanics(ch, cl) == ch = 0 \/ ch \in cl

\* close(cont.doneChan): the set of closed channels afterwards
CloseDoneForgotten(ch, cl) == cl
CloseDone(ch, cl) == cl \cup {ch}

\* select { case <-cont.doneChan: done = true; default: }
\* (a receive from a nil channel is never ready)
DoneObserved(ch, cl) == ch # 0 /\ ch \in cl

\* if !done { cont.logger.Error("serve failed", ...) }
LogsErrorAlways(ch, cl) == TRUE
LogsError(ch, cl) == ~DoneObserved(ch, cl)

\* cont.wg.Wait() returns when the counter is zero
WaitNotWaiting(w) == TRUE
WaitReturns(w) == w = 0

\* the stop method each signal fans out: stop() for TERM, gracefulStop() otherwise
StopMethodAlwaysStop(sig) == "Stop"
StopMethod(sig) == IF sig = "TERM" THEN "Stop" ELSE "GracefulStop"

\* for _, server := range cont.servers: the loop is over after the last registration
RangeDoneOffByOne(i) == i >= NumServers
RangeDone(i) == i > NumServers

\* SIGHUP: after upgrade() failed the handler continues with the next signal,
\* otherwise it goes on to gracefulStop()
HupNextNoContinue(failed) == "stop_enter"
HupNext(failed) == IF failed THEN "wait" ELSE "stop_enter"

\* writePid: the contents written to <pidfile>
WritePidWrong(pid) == pid + 1
WritePid(pid) == pid

\* os.Rename(from, to): <<from', to'>>; fails and changes nothing without from
Rename(from, to) == IF from = NoFile THEN <<from, to>> ELSE <<NoFile, from>>

\* upgrade(): os.Rename(cont.pidfile, cont.pidfile+".old") gives <<pidfile', pidold'>>
UpgradeRenameNone(pf, old) == <<pf, old>>
UpgradeRename(pf, old) == Rename(pf, old)

\* SIGCHLD: os.Rename(cont.pidfile+".old", cont.pidfile) gives <<pidfile', pidold'>>
ChldRenameSwapped(pf, old) == Rename(pf, old)
ChldRename(pf, old) == <<Rename(old, pf)[2], Rename(old, pf)[1]>>

\* the signal runtime sends without blocking: a signal is put into the channel
\* when it has room and is dropped otherwise
HasRoom(q) == Len(q) < SigChanCap

\* the registrations serve() binds before Listen fails for registration f (0: none fails)
Bound(f) == IF f = 0 THEN Regs ELSE 1..(f - 1)

\* the goroutine started for registration i in episode g
NewLoop(i, g) == [reg |-> i, ep |-> g, at |-> "serving", why |-> "none"]

(* ---------------------------------------------------------------------- *)
(* Initial state: after New() and the AddServer calls, before Serve        *)
(* ---------------------------------------------------------------------- *)

Init ==
    /\ state = Running              \* zero value of ContState
    /\ pc = "init"
    /\ k = 0
    /\ cur = "none"
    /\ queue = <<>>
    /\ ret = "none"
    /\ doneChan = 0
    /\ closed = {}
    /\ lis = [i \in Regs |-> 0]
    /\ open = {}
    /\ active = {}
    /\ loops = {}
    /\ wg = 0
    /\ serveErr = 0
    /\ pidfile = NoFile
    /\ pidold = NoFile
    /\ child = 0
    /\ nchild = 0
    /\ alive = {}
    /\ wrote = {}
    /\ upg = "none"
    /\ asked = [i \in Regs |-> "none"]
    /\ stopErr = FALSE
    /\ toggles = 0
    /\ upgrades = 0
    /\ logged = FALSE

(* ---------------------------------------------------------------------- *)
(* serve(): make the done channel, bind every registration, start its      *)
(* accept loop; Listen fails for registration f (f = 0: every bind works)  *)
(* ---------------------------------------------------------------------- *)

DoServe(f) ==
    LET g == doneChan + 1 IN
    /\ doneChan' = g
    /\ lis' = [i \in Regs |-> IF i \in Bound(f) THEN g ELSE lis[i]]
    /\ open' = open \cup {<<i, g>> : i \in Bound(f)}
    /\ active' = active \cup {<<i, g>> : i \in Bound(f)}
    /\ loops' = loops \cup {NewLoop(i, g) : i \in Bound(f)}
    /\ wg' = wg + Cardinality(Bound(f))
    /\ serveErr' = f

\* serve() sets cont.state = Running only when no Listen failed
ServeState(f, st) == IF f = 0 THEN Running ELSE st

(* ---------------------------------------------------------------------- *)
(* Serve up to the signal loop: writePid, serve(), signal.Notify           *)
(* ---------------------------------------------------------------------- *)

StartPidFail ==
    /\ pc = "init"
    /\ pc' = "returned"
    /\ ret' = "err"
    /\ UNCHANGED <<state, k, cur, doneChan, closed, lis, active, serveErr,
                   child, upg, asked, stopErr>>
    /\ UNCHANGED <<sigVars, fileVars, childVars, loopVars>>
    /\ logged' = FALSE

Start ==
    /\ pc = "init"
    /\ pidfile' = WritePid(ParentPid)
    /\ \E f \in 0..NumServers : DoServe(f) /\ state' = ServeState(f, state)
    /\ pc' = "wait"
    /\ UNCHANGED <<k, cur, ret, closed, child, upg, asked, stopErr, pidold>>
    /\ UNCHANGED <<sigVars, childVars>>
    /\ logged' = FALSE

(* ---------------------------------------------------------------------- *)
(* Signal delivery and the receive at the top of the loop                  *)
(* ---------------------------------------------------------------------- *)

Enqueue(s) == queue' = IF HasRoom(queue) THEN Append(queue, s) ELSE queue

\* a signal sent to the process by the operator (SIGCHLD comes from the
\* exit of a successor, see ChildExit); sent while the channel is full it is
\* dropped and nothing changes, which is a stuttering step
Deliver(s) ==
    /\ pc \notin {"init", "returned", "panicked"}
    /\ s = "USR1" => toggles < MaxToggles
    /\ s \in {"USR2", "HUP"} => upgrades < MaxUpgrades
    /\ HasRoom(queue)
    /\ Enqueue(s)
    /\ toggles' = IF s = "USR1" THEN toggles + 1 ELSE toggles
    /\ upgrades' = IF s \in {"USR2", "HUP"} THEN upgrades + 1 ELSE upgrades
    /\ UNCHANGED <<ctlVars, fileVars, childVars, loopVars>>
    /\ logged' = FALSE

\* sig := <-c
Pull ==
    /\ pc = "wait"
    /\ queue # <<>>
    /\ cur' = Head(queue)
    /\ queue' = Tail(queue)
    /\ pc' = "dispatch"
    /\ UNCHANGED <<state, k, ret, doneChan, closed, lis, active, serveErr,
                   child, upg, asked, stopErr>>
    /\ UNCHANGED <<toggles, upgrades, fileVars, childVars, loopVars>>
    /\ logged' = FALSE

(* ---------------------------------------------------------------------- *)
(* The switch on the signal                                                *)
(* ---------------------------------------------------------------------- *)

\* case SIGTERM: cont.stop() / case SIGQUIT: cont.gracefulStop()
HandleStop ==
    /\ pc = "dispatch"
    /\ cur \in {"TERM", "QUIT"}
    /\ pc' = "stop_enter"
    /\ UNCHANGED <<state, k, cur, ret, doneChan, closed, lis, active, serveErr,
                   child, upg, asked, stopErr>>
    /\ UNCHANGED <<sigVars, fileVars, childVars, loopVars>>
    /\ logged' = FALSE

\* case SIGUSR1 with state == Running: state = Ready; closeListeners() up to
\* close(cont.doneChan)
HandleUsr1Close ==
    /\ pc = "dispatch"
    /\ cur = "USR1"
    /\ state = Running
    /\ state' = Ready
    /\ IF ClosePanics(doneChan, closed)
       THEN /\ pc' = "panicked"
            /\ UNCHANGED <<closed, k>>
       ELSE /\ closed' = CloseDone(doneChan, closed)
            /\ pc' = "cl_lis"
            /\ k' = 1
    /\ UNCHANGED <<cur, ret, doneChan, lis, active, serveErr, child, upg,
                   asked, stopErr>>
    /\ UNCHANGED <<sigVars, fileVars, childVars, loopVars>>
    /\ logged' = FALSE

\* closeListeners(): server.lis.Close() for the k-th registration; a nil
\* listener (never bound) is a nil dereference
CloseLis ==
    /\ pc = "cl_lis"
    /\ ~RangeDone(k)
    /\ IF lis[k] = 0
       THEN /\ pc' = "panicked"
            /\ UNCHANGED <<k, open>>
       ELSE /\ open' = open \ {<<k, lis[k]>>}
            /\ k' = k + 1
            /\ pc' = pc
    /\ UNCHANGED <<state, cur, ret, doneChan, closed, lis, active, serveErr,
                   child, upg, asked, stopErr>>
    /\ UNCHANGED <<sigVars, fileVars, childVars, loops, wg>>
    /\ logged' = FALSE

\* closeListeners(): cont.net = gnet.Net{} after the loop, then back to the receive
CloseFinish ==
    /\ pc = "cl_lis"
    /\ RangeDone(k)
    /\ active' = {}
    /\ pc' = "wait"
    /\ UNCHANGED <<state, k, cur, ret, doneChan, closed, lis, serveErr,
                   child, upg, asked, stopErr>>
    /\ UNCHANGED <<sigVars, fileVars, childVars, loopVars>>
    /\ logged' = FALSE

\* case SIGUSR1 with state == Ready: cont.wg.Wait(); cont.serve(); state = Running
\* (any other state falls through the if / else if)
HandleUsr1Reopen ==
    /\ pc = "dispatch"
    /\ cur = "USR1"
    /\ state # Running
    /\ IF state = Ready
       THEN /\ WaitReturns(wg)
            /\ \E f \in 0..NumServers : DoServe(f)
            /\ state' = Running
       ELSE UNCHANGED <<state, doneChan, lis, active, serveErr, loopVars>>
    /\ pc' = "wait"
    /\ UNCHANGED <<k, cur, ret, closed, child, upg, asked, stopErr>>
    /\ UNCHANGED <<sigVars, fileVars, childVars>>
    /\ logged' = FALSE

\* cont.net.StartProcess() takes the file of every listener gracenet keeps;
\* a closed listener has no file to give and the call returns the error
\* ("try to pass to child process which cause errors", closeListeners)
CanStartAnyway(act, op) == TRUE
CanStart(act, op) == act \subseteq op

\* upgrade(): rename the pid file, then cont.net.StartProcess(), which may fail
DoUpgrade(ok) ==
    /\ ok => CanStart(active, open)
    /\ pidfile' = UpgradeRename(pidfile, pidold)[1]
    /\ pidold' = UpgradeRename(pidfile, pidold)[2]
    /\ IF ok
       THEN /\ nchild' = nchild + 1
            /\ child' = nchild + 1
            /\ alive' = alive \cup {nchild + 1}
            /\ upg' = "ok"
       ELSE /\ upg' = "fail"
            /\ UNCHANGED <<nchild, child, alive>>
    /\ UNCHANGED wrote

\* case SIGUSR2
HandleUsr2 ==
    /\ pc = "dispatch"
    /\ cur = "USR2"
    /\ \E ok \in BOOLEAN : DoUpgrade(ok)
    /\ pc' = "wait"
    /\ UNCHANGED <<state, k, cur, ret, doneChan, closed, lis, active, serveErr,
                   asked, stopErr>>
    /\ UNCHANGED <<sigVars, loopVars>>
    /\ logged' = FALSE

\* case SIGHUP: upgrade(), and gracefulStop() unless it failed
HandleHup ==
    /\ pc = "dispatch"
    /\ cur = "HUP"
    /\ \E ok \in BOOLEAN : DoUpgrade(ok) /\ pc' = HupNext(~ok)
    /\ UNCHANGED <<state, k, cur, ret, doneChan, closed, lis, active, serveErr,
                   asked, stopErr>>
    /\ UNCHANGED <<sigVars, loopVars>>
    /\ logged' = FALSE

\* case SIGCHLD: p.Wait() blocks while cont.child runs and fails at once when
\* there is no such child; then <pidfile>.old is renamed back
HandleChld ==
    /\ pc = "dispatch"
    /\ cur = "CHLD"
    /\ child \notin alive
    /\ pidfile' = ChldRename(pidfile, pidold)[1]
    /\ pidold' = ChldRename(pidfile, pidold)[2]
    /\ pc' = "wait"
    /\ UNCHANGED <<state, k, cur, ret, doneChan, closed, lis, active, serveErr,
                   child, upg, asked, stopErr>>
    /\ UNCHANGED <<sigVars, childVars, loopVars>>
    /\ logged' = FALSE

(* ---------------------------------------------------------------------- *)
(* stop() and gracefulStop()                                               *)
(* ---------------------------------------------------------------------- *)

\* close(cont.doneChan) at the top of stop() / gracefulStop()
StopEnter ==
    /\ pc = "stop_enter"
    /\ IF ClosePanics(doneChan, closed)
       THEN /\ pc' = "panicked"
            /\ UNCHANGED <<closed, k>>
       ELSE /\ closed' = CloseDone(doneChan, closed)
            /\ pc' = "stop_loop"
            /\ k' = 1
    /\ UNCHANGED <<state, cur, ret, doneChan, lis, active, serveErr, child,
                   upg, asked, stopErr>>
    /\ UNCHANGED <<sigVars, fileVars, childVars, loopVars>>
    /\ logged' = FALSE

\* the listeners the server of registration i is serving: Stop and
\* GracefulStop of the wrapped servers close them
Serving(i) == {<<l.reg, l.ep>> : l \in {m \in loops : m.reg = i /\ m.at = "serving"}}

\* a fan-out that notes the error of the k-th server and goes on with the
\* servers after it
StopServerContinue ==
    /\ pc = "stop_loop"
    /\ ~RangeDone(k)
    /\ asked' = [asked EXCEPT ![k] = StopMethod(cur)]
    /\ open' = open \ Serving(k)
    /\ k' = k + 1
    /\ \E err \in BOOLEAN : stopErr' = (stopErr \/ err)
    /\ UNCHANGED <<state, pc, cur, ret, doneChan, closed, lis, active,
                   serveErr, child, upg>>
    /\ UNCHANGED <<sigVars, fileVars, childVars, loops, wg>>
    /\ logged' = FALSE

\* server.srv.Stop() / server.srv.GracefulStop() for the k-th registration;
\* on an error stop()/gracefulStop() returns it: TERM and QUIT return nil
\* from Serve all the same, HUP logs it and continues with the next signal
StopServer ==
    /\ pc = "stop_loop"
    /\ ~RangeDone(k)
    /\ asked' = [asked EXCEPT ![k] = StopMethod(cur)]
    /\ open' = open \ Serving(k)
    /\ \E err \in BOOLEAN :
         IF err
         THEN /\ stopErr' = TRUE
              /\ pc' = IF cur = "HUP" THEN "wait" ELSE "returned"
              /\ ret' = IF cur = "HUP" THEN ret ELSE "nil"
              /\ k' = k
         ELSE /\ k' = k + 1
              /\ UNCHANGED <<stopErr, pc, ret>>
    /\ UNCHANGED <<state, cur, doneChan, closed, lis, active, serveErr,
                   child, upg>>
    /\ UNCHANGED <<sigVars, fileVars, childVars, loops, wg>>
    /\ logged' = FALSE

\* after the loop: cont.state = Stopped; return nil, and Serve returns nil
StopFinish ==
    /\ pc = "stop_loop"
    /\ RangeDone(k)
    /\ state' = Stopped
    /\ pc' = "returned"
    /\ ret' = "nil"
    /\ UNCHANGED <<k, cur, doneChan, closed, lis, active, serveErr, child,
                   upg, asked, stopErr>>
    /\ UNCHANGED <<sigVars, fileVars, childVars, loopVars>>
    /\ logged' = FALSE

(* ---------------------------------------------------------------------- *)
(* The accept-loop goroutine started by serve()                            *)
(* ---------------------------------------------------------------------- *)

\* server.srv.Serve(server.lis) returns an error because its listener was closed
LoopReturn(l) ==
    /\ ~Crashed
    /\ l.at = "serving"
    /\ <<l.reg, l.ep>> \notin open
    /\ loops' = (loops \ {l}) \cup {[l EXCEPT !.at = "check", !.why = "teardown"]}
    /\ UNCHANGED <<ctlVars, sigVars, fileVars, childVars, wg, open>>
    /\ logged' = FALSE

\* server.srv.Serve(server.lis) fails on its own; the wrapped servers close
\* the listener when Serve returns
LoopFail(l) ==
    /\ ~Crashed
    /\ l.at = "serving"
    /\ <<l.reg, l.ep>> \in open
    /\ open' = open \ {<<l.reg, l.ep>>}
    /\ loops' = (loops \ {l}) \cup {[l EXCEPT !.at = "check", !.why = "spontaneous"]}
    /\ UNCHANGED <<ctlVars, sigVars, fileVars, childVars, wg>>
    /\ logged' = FALSE

\* the select on cont.doneChan, the log unless done, and cont.wg.Done()
LoopCheck(l) ==
    /\ ~Crashed
    /\ l.at = "check"
    /\ loops' = loops \ {l}
    /\ wg' = wg - 1
    /\ logged' = LogsError(doneChan, closed)
    /\ UNCHANGED <<ctlVars, sigVars, fileVars, childVars, open>>

\* any of the goroutines takes its step
AcceptLoopReturn == \E l \in loops : LoopReturn(l)
AcceptLoopFail == \E l \in loops : LoopFail(l)
AcceptLoopCheck == \E l \in loops : LoopCheck(l)

(* ---------------------------------------------------------------------- *)
(* The successor processes                                                 *)
(* ---------------------------------------------------------------------- *)

\* the successor runs Serve: writePid with its own pid
ChildWritePid(c) ==
    /\ ~Crashed
    /\ c \in alive
    /\ c \notin wrote
    /\ pidfile' = WritePid(ChildPid(c))
    /\ wrote' = wrote \cup {c}
    /\ UNCHANGED <<ctlVars, sigVars, pidold, nchild, alive, loopVars>>
    /\ logged' = FALSE

\* the successor exits: SIGCHLD for the parent while it is in its signal loop
ChildExit(c) ==
    /\ ~Crashed
    /\ c \in alive
    /\ alive' = alive \ {c}
    /\ wrote' = wrote \ {c}
    /\ IF pc \in {"init", "returned", "panicked"}
       THEN UNCHANGED queue
       ELSE Enqueue("CHLD")
    /\ UNCHANGED <<ctlVars, toggles, upgrades, fileVars, nchild, loopVars>>
    /\ logged' = FALSE

(* ---------------------------------------------------------------------- *)
(* Specification                                                           *)
(* ---------------------------------------------------------------------- *)

Next ==
    \/ StartPidFail
    \/ Start
    \/ \E s \in Signals \ {"CHLD"} : Deliver(s)
    \/ Pull
    \/ HandleStop
    \/ HandleUsr1Close
    \/ CloseLis
    \/ CloseFinish
    \/ HandleUsr1Reopen
    \/ HandleUsr2
    \/ HandleHup
    \/ HandleChld
    \/ StopEnter
    \/ StopServer
    \/ StopFinish
    \/ AcceptLoopReturn
    \/ AcceptLoopFail
    \/ AcceptLoopCheck
    \/ \E c \in ChildIds : ChildWritePid(c)
    \/ \E c \in ChildIds : ChildExit(c)

Spec == Init /\ [][Next]_vars

(* ---------------------------------------------------------------------- *)
(* The toggle under its assumptions: every Listen succeeds, the operator   *)
(* sends SIGUSR1 and SIGUSR2 only (SIGCHLD follows the exit of a           *)
(* successor), the controller runs when it can, and an accept loop whose   *)
(* listener has been closed returns and goes through its select.           *)
(* ---------------------------------------------------------------------- *)

\* Serve up to the signal loop, every Listen of serve() succeeding
StartBound == Start /\ serveErr' = 0

\* SIGUSR1 in Ready, every Listen of serve() succeeding
ReopenBound == HandleUsr1Reopen /\ serveErr' = 0

ToggleNext ==
    \/ StartBound
    \/ \E s \in {"USR1", "USR2"} : Deliver(s)
    \/ Pull
    \/ HandleUsr1Close
    \/ CloseLis
    \/ CloseFinish
    \/ ReopenBound
    \/ HandleUsr2
    \/ HandleChld
    \/ AcceptLoopReturn
    \/ AcceptLoopFail
    \/ AcceptLoopCheck
    \/ \E c \in ChildIds : ChildWritePid(c)
    \/ \E c \in ChildIds : ChildExit(c)

ToggleSpec ==
    /\ Init
    /\ [][ToggleNext]_vars
    /\ WF_vars(ReopenBound)
    /\ WF_vars(AcceptLoopReturn)
    /\ WF_vars(AcceptLoopCheck)

(* ---------------------------------------------------------------------- *)
(* Properties                                                              *)
(* ---------------------------------------------------------------------- *)

\* the handler of the signal in cur has run to its end
HandlerOver == pc \in {"wait", "returned", "panicked"}

AllAsked(m) == \A i \in Regs : asked[i] = m

\* C1: for TERM and for QUIT, handled in Running or in Ready, when no Stop /
\* GracefulStop returns an error: the stop method is invoked on every
\* registered server, Serve returns nil and Status() is Stopped afterwards.
C1_StopSignalStopsAll ==
    (cur \in {"TERM", "QUIT"} /\ HandlerOver /\ ~stopErr) =>
        /\ pc = "returned"
        /\ ret = "nil"
        /\ state = Stopped
        /\ cur = "TERM" => AllAsked("Stop")
        /\ cur = "QUIT" => AllAsked("GracefulStop")

\* C2: over signal sequences of USR1, USR2 and CHLD only, every USR1 toggles
\* the state between Running and Ready, USR2 and CHLD leave it alone, the
\* state is Running or Ready throughout and Serve does not end.
\* (A state whose last signal is USR1, USR2 or CHLD and in which no stop
\* method failed is reached by such a sequence: a SIGHUP whose upgrade
\* failed acts as a SIGUSR2 whose upgrade failed.)
C2_Domain == cur \in {"USR1", "USR2", "CHLD"} /\ ~stopErr

C2_Toggled(st) == IF st = Running THEN Ready ELSE Running

C2_Step ==
    (cur' \in {"USR1", "USR2", "CHLD"} /\ ~stopErr') =>
        IF cur = "USR1" /\ pc = "dispatch" /\ pc' # "dispatch"
        THEN state' = C2_Toggled(state)
        ELSE state' = state

C2_ToggleOnly ==
    /\ [](C2_Domain => (pc \notin {"returned", "panicked"} /\ state \in {Running, Ready}))
    /\ [][C2_Step]_vars

\* C3: when a Listen of the first serve() fails, Serve returns that error
\* without entering the signal loop and the state is never Running.
C3_BindFailureAborts ==
    (pc # "init" /\ doneChan = 1 /\ serveErr # 0) =>
        (pc = "returned" /\ ret = "err" /\ state # Running)

\* C4: when SIGHUP is handled and upgrade() fails, no GracefulStop is
\* invoked, the done channel is not closed, no listener is closed, the state
\* is unchanged, Serve does not return and the controller is back at the
\* receive for the next signal.
C4_HupFailStep ==
    (cur = "HUP" /\ pc = "dispatch" /\ pc' # "dispatch" /\ upg' = "fail") =>
        /\ pc' = "wait"
        /\ asked' = asked
        /\ closed' = closed
        /\ open' = open
        /\ lis' = lis
        /\ state' = state
        /\ ret' = ret

C4_HupUpgradeFailureKeepsServing == [][C4_HupFailStep]_vars

C4_Witness == cur = "HUP" /\ upg = "fail" /\ pc = "wait" /\ state = Running /\ open # {}

C6_LoopsMatchState ==
    (pc # "init" /\ ret # "err" /\ serveErr = 0) =>
        /\ state = Running => wg = NumServers
        /\ state \in {Ready, Stopped} => wg = 0

\* C6 amended: the wait-group count is the number of accept loops started and
\* not yet returned, with at most one per registration, so it never exceeds
\* the number of registrations; while Running it is the number of
\* registrations as long as every listener of the episode is open; between
\* two signal handlings in Ready or Stopped every loop still in flight has
\* lost its listener and is on its way out (the count drains to zero
\* asynchronously; the controller waits for zero before it binds again).
C6_LoopsCounted ==
    /\ wg = Cardinality(loops)
    /\ \A l1, l2 \in loops : l1.reg = l2.reg => l1 = l2
    /\ wg <= NumServers
    /\ (pc # "init" /\ state = Running /\ \A i \in Regs : <<i, doneChan>> \in open)
          => wg = NumServers
    /\ (pc \in {"wait", "returned"} /\ state \in {Ready, Stopped})
          => \A l \in loops : <<l.reg, l.ep>> \notin open

C6_Witness ==
    /\ pc = "wait" /\ state = Running /\ doneChan = 2 /\ serveErr = 0
    /\ wg = NumServers

\* C7: in every teardown the done channel is closed before any listener is
\* closed and before any Stop/GracefulStop is invoked, so an accept loop that
\* returns because of the teardown finds the done channel closed at its
\* select (and its error is not logged).
C7_DoneBeforeTeardown ==
    /\ pc \in {"cl_lis", "stop_loop"} => doneChan \in closed
    /\ (\E i \in Regs : asked[i] # "none") => doneChan \in closed
    /\ \A l \in loops :
         (l.at = "serving" /\ <<l.reg, l.ep>> \notin open) => DoneObserved(doneChan, closed)
    /\ \A l \in loops :
         (l.at = "check" /\ l.why = "teardown") => DoneObserved(doneChan, closed)

C7_Witness ==
    \E l \in loops : l.at = "check" /\ l.why = "teardown" /\ DoneObserved(doneChan, closed)

C9_StoppedMeansAllAsked ==
    state = Stopped =>
        /\ cur \in {"TERM", "QUIT", "HUP"}
        /\ cur = "TERM" => AllAsked("Stop")
        /\ cur \in {"QUIT", "HUP"} => AllAsked("GracefulStop")

C9_Witness == state = Stopped /\ cur = "HUP" /\ AllAsked("GracefulStop")

\* C10: when SIGHUP is handled, the successor starts and no GracefulStop
\* fails: the successor is started before any server is asked to stop, every
\* server is gracefully stopped, Serve returns with state Stopped, and the
\* pid file the successor wrote is left alone by the parent (it never holds
\* the parent's pid again, and it holds the pid of the successor once that
\* has written it, no other successor having been started).
C10_HupHandsOver ==
    /\ (cur = "HUP" /\ pc \in {"stop_enter", "stop_loop"}) => upg = "ok"
    /\ (cur = "HUP" /\ upg = "ok" /\ HandlerOver /\ ~stopErr) =>
          /\ pc = "returned"
          /\ ret = "nil"
          /\ state = Stopped
          /\ AllAsked("GracefulStop")
          /\ pidfile # ParentPid
          /\ (nchild = 1 /\ child \in wrote) => pidfile = ChildPid(child)

\* C11: after any sequence of USR2 upgrades (successful or failed) and
\* successor exits, once every successor has exited and every resulting
\* SIGCHLD has been handled (the controller is back at the receive with an
\* empty channel, the last signal handled being that SIGCHLD when a
\* successor was started), <pidfile> holds the pid of the parent and there
\* is no <pidfile>.old.
C11_Settled ==
    /\ pc = "wait"
    /\ queue = <<>>
    /\ upg # "none"
    /\ ~stopErr
    /\ alive = {}
    /\ cur \in {"USR2", "CHLD"}
    /\ nchild > 0 => cur = "CHLD"

C11_PidFileRecovers == C11_Settled => (pidfile = ParentPid /\ pidold = NoFile)

\* C12: stop() and gracefulStop() ask the servers in registration order (the
\* servers asked are always a prefix of the registrations); when the stop
\* of the k-th server returns an error the function returns that error at
\* once: the fan-out is left with k the server that failed, and no server
\* registered after it is asked.
C12_AskedInOrder ==
    \A i, j \in Regs : (i < j /\ asked[j] # "none") => asked[i] # "none"

C12_FirstErrorAborts ==
    /\ C12_AskedInOrder
    /\ stopErr => /\ pc # "stop_loop"
                  /\ k \in Regs
                  /\ asked[k] # "none"
                  /\ \A j \in Regs : j > k => asked[j] = "none"

C12_Witness ==
    /\ stopErr
    /\ k = 1
    /\ asked[1] = "GracefulStop"
    /\ \A j \in Regs : j > 1 => asked[j] = "none"
    /\ pc = "wait"

\* C13: no signal is lost other than by merging with a pending signal of the
\* same kind: when a successor exits while the controller is busy handling
\* an earlier signal (the channel possibly holding one signal already), the
\* SIGCHLD of that exit is in the channel afterwards, behind what was there
\* before, to be pulled and handled in arrival order.
C13_Busy == pc \in {"dispatch", "cl_lis", "stop_enter", "stop_loop"}

C13_ChldStep ==
    (C13_Busy /\ alive' # alive /\ alive' \subseteq alive) =>
        /\ \E i \in 1..Len(queue') : queue'[i] = "CHLD"
        /\ \A i \in 1..Len(queue) : queue'[i] = queue[i]

C13_NoSignalLost == [][C13_ChldStep]_vars

\* C14: the step that completes a Running -> Ready -> Running toggle (the
\* SIGUSR1 handled in Ready) leaves every registration with a freshly bound,
\* open listener whose identity differs from the one it held in the previous
\* episode (the registrations themselves, Regs, never change).
C14_ReopenStep ==
    (state = Ready /\ state' = Running) =>
        \A i \in Regs : /\ lis'[i] # lis[i]
                        /\ lis'[i] = doneChan'
                        /\ <<i, lis'[i]>> \in open'
                        /\ <<i, lis'[i]>> \notin open

C14_FreshListeners == [][C14_ReopenStep]_vars

\* C15: when an accept loop comes to its select (the step that takes it out
\* of the wait group), the done channel it consults is that of the current
\* episode, which is its own; its error is suppressed if that channel is
\* closed at that moment and logged if it is not. No step of an accept loop
\* changes the state of the supervisor or makes Serve return: once past the
\* startup, Serve returns only from the handling of TERM, QUIT or HUP.
C15_LoopStep == loops' # loops /\ doneChan' = doneChan

C15_Select ==
    (C15_LoopStep /\ wg' < wg) =>
        /\ \A l \in loops \ loops' : l.ep = doneChan
        /\ DoneObserved(doneChan, closed) => ~logged'
        /\ ~DoneObserved(doneChan, closed) => logged'

C15_NoEffect ==
    C15_LoopStep => (state' = state /\ pc' = pc /\ ret' = ret /\ queue' = queue)

C15_ReturnCause ==
    pc = "returned" => \/ ret = "err" /\ cur = "none" /\ doneChan = 0
                       \/ ret = "nil" /\ cur \in {"TERM", "QUIT", "HUP"}

C15_LoopErrorsOnlyLogged ==
    /\ [][C15_Select /\ C15_NoEffect]_vars
    /\ []C15_ReturnCause

C15_Witness == logged /\ pc = "wait" /\ state = Running /\ wg < NumServers

\* C16: the done channel is replaced and listeners are bound only when every
\* accept loop started before has returned (the wait group is at zero), so
\* the accept loops in flight all belong to one episode, the current one,
\* and the channel each of them finds in cont.doneChan is that of its own
\* episode.
C16_OneEpisode == \A l \in loops : l.ep = doneChan /\ l.ep # 0

C16_ServeStep ==
    doneChan' # doneChan =>
        /\ wg = 0 /\ loops = {}
        /\ \A l \in loops' : l.ep = doneChan' /\ l.at = "serving"

C16_LoopsOfOneEpisode == []C16_OneEpisode /\ [][C16_ServeStep]_vars

C16_Witness ==
    /\ pc = "wait" /\ cur = "USR1" /\ state = Running
    /\ doneChan = 2
    /\ loops # {}
    /\ \A l \in loops : l.ep = 2

\* C17: at every start of a successor (the SIGUSR2 or SIGHUP step in which
\* StartProcess succeeds), the listeners gracenet hands over are exactly the
\* listeners open in the supervisor at that moment; none of them is closed.
C17_StartStep ==
    nchild' # nchild =>
        /\ cur \in {"USR2", "HUP"}
        /\ active = open
        /\ \A i \in Regs : (state = Running /\ serveErr = 0) => <<i, lis[i]>> \in active

C18_AboutToClose ==
    \/ pc = "stop_enter"
    \/ pc = "dispatch" /\ cur = "USR1" /\ state = Running

C18_DoneClosedOnce == C18_AboutToClose => ~ClosePanics(doneChan, closed)

\* C19 as stated: whenever Serve has returned from the signal loop the state
\* is Stopped and every registered server has been asked to stop, also when
\* a Stop or GracefulStop returned an error.
C19_ReturnMeansStopped ==
    (pc = "returned" /\ ret = "nil") =>
        /\ state = Stopped
        /\ \A i \in Regs : asked[i] # "none"

\* C19 amended: when Serve has returned from the signal loop and no stop
\* method returned an error, the state is Stopped and every server has been
\* asked with the method of the signal; when the stop method of the k-th
\* server returned an error (TERM or QUIT; after HUP Serve does not
\* return), Serve has returned nil all the same, the state is still Running,
\* and the servers after the k-th have not been asked.
C19_ReturnStoppedUnlessStopError ==
    (pc = "returned" /\ ret = "nil") =>
        /\ ~stopErr => /\ state = Stopped
                       /\ cur = "TERM" => AllAsked("Stop")
                       /\ cur \in {"QUIT", "HUP"} => AllAsked("GracefulStop")
        /\ stopErr => /\ cur \in {"TERM", "QUIT"}
                      /\ state = Running
                      /\ asked[k] # "none"
                      /\ \A j \in Regs : j > k => asked[j] = "none"

C19_Witness ==
    /\ pc = "returned" /\ ret = "nil" /\ cur = "TERM"
    /\ stopErr
    /\ state = Running
    /\ asked[1] = "Stop"
    /\ \A j \in Regs : j > 1 => asked[j] = "none"

\* C20: when every Listen succeeds and every accept loop returns once its
\* listener is closed, a SIGUSR1 taken up in Ready is always handled to the
\* end: the wait on the accept loops of the old episode ends, and the
\* supervisor comes to be Running, back at the receive, with one accept loop
\* of the new episode per registration, whatever SIGUSR1, SIGUSR2 and
\* SIGCHLD came before.
C20_ReopenPending == pc = "dispatch" /\ cur = "USR1" /\ state = Ready

C20_Reopened ==
    /\ pc = "wait" /\ cur = "USR1" /\ state = Running
    /\ doneChan \notin closed
    /\ \A i \in Regs : \E l \in loops : l.reg = i /\ l.ep = doneChan /\ l.at = "serving"

C20_ToggleCompletes == C20_ReopenPending ~> C20_Reopened

C20_Witness == C20_Reopened /\ doneChan = 2 /\ toggles = 2 /\ upg = "ok" /\ wg = NumServers

====
